---- MODULE Spec2Model ----
(***************************************************************************)
(* Model of the client-side rate limited request scheduler (RateLimiter   *)
(* with a wait queue), of the retrying embedding invoker and of the chat   *)
(* and search call sites that pass through it.                             *)
(*                                                                         *)
(* Time is a clock in milliseconds.  A call of delay(ms) registers a timer *)
(* whose deadline is now + ms; setTimeout fires it at or after the         *)
(* deadline, so a timer may fire late by any amount.  JavaScript runs each *)
(* handler to its next await, so every action is one such run.             *)
(***************************************************************************)
EXTENDS Integers, Sequences, FiniteSets, TLC

VARIABLES
  now,          \* Date.now()
  maxTokens,    \* RateLimiter.maxTokens
  tokens,       \* RateLimiter.tokens
  lastRefill,   \* RateLimiter.lastRefill
  waitQueue,    \* RateLimiter.waitQueue: the pending calls, oldest first
  loopTimers,   \* deadlines of the delay(waitTime) a processQueue run awaits
  callAt,       \* callAt[c]: the time at which call c of waitForToken was made
  callOwner,    \* callOwner[c]: the process that made call c (0: a bare caller)
  grantLog,     \* the resolve(true) made so far, in order: [call, at]
  decrements,   \* the number of this.tokens-- executed so far
  pc,           \* pc[p]: where process p stands in its function
  kind,         \* kind[p]: the function process p runs
  attempt,      \* attempt[p]: the loop variable i of the retrying invoker
  myCall,       \* myCall[p]: the waitForToken call process p awaits (0: none)
  procTimer,    \* procTimer[p]: deadline of the delay(25000) p awaits (0: none)
  outcome,      \* outcome[p]: what the function of p returned or threw
  lastStatus,   \* lastStatus[p]: the status of the provider's last answer to p
  nCalls,       \* nCalls[p]: provider calls started by p
  nThrottled,   \* nThrottled[p]: provider calls of p answered with status 429
  nCooldowns,   \* nCooldowns[p]: delay(25000) of p that have elapsed
  batch,        \* the run of a batch driver: its loop, its items, its result
  callers       \* callers[c]: where caller c of the non-queued limiter stands

schedVars == <<now, maxTokens, tokens, lastRefill, waitQueue, loopTimers,
               callAt, callOwner, grantLog, decrements>>
procVars  == <<pc, kind, attempt, myCall, procTimer, outcome, lastStatus,
               nCalls, nThrottled, nCooldowns, batch, callers>>
vars      == <<schedVars, procVars>>

(***************************************************************************)
(* Bounds of the model.                                                    *)
(***************************************************************************)
MaxCapacity == 3      \* capacities 1..MaxCapacity are constructed
MaxCalls    == 4      \* waitForToken calls made by bare callers
LiveCalls   == 3      \* the same, where liveness is checked
NProcs      == 2      \* processes running an invoker or a call site
BurstCalls  == 2      \* bare callers arrive while fewer calls than this were made
MaxCallers  == 2      \* callers of the non-queued limiter
MaxItems    == 4      \* a batch has 0..MaxItems documents or chunks
Quantum     == 10000  \* the clock advances in steps of Quantum ms
MaxTime     == 60000  \* the clock runs freely up to MaxTime, then to the timers

(***************************************************************************)
(* Program constants.                                                      *)
(***************************************************************************)
MinuteMs        == 60000
CooldownMs      == 25000
TokensPerMinute == 3
DefaultRetries  == 3
TooManyRequests == 429

Min(a, b) == IF a < b THEN a ELSE b

\* Math.ceil(a / b) for a >= 0, b > 0
Ceil(a, b) == (a + b - 1) \div b

\* faulty variant: the refill counted per second, timePassed / 1000
RefillAmountPerSecond(timePassed, cap) == (timePassed * cap) \div 1000

\* Math.floor(timePassed / (60 * 1000) * this.maxTokens)
RefillAmount(timePassed, cap) == (timePassed * cap) \div MinuteMs

\* faulty variant: the refill without Math.min
RefillUncapped(tk, timePassed, cap) == tk + RefillAmount(timePassed, cap)

\* this.tokens = Math.min(this.maxTokens, this.tokens + refillAmount)
Refill(tk, timePassed, cap) == Min(cap, tk + RefillAmount(timePassed, cap))

\* faulty variant: Math.ceil(1000 / this.maxTokens)
WaitTimePerSecond(cap) == Ceil(1000, cap)

\* Math.ceil((60 * 1000) / this.maxTokens)
WaitTime(cap) == Ceil(MinuteMs, cap)

\* faulty variant: if (this.tokens < 0)
OutOfTokensOffByOne(tk) == tk < 0

\* if (this.tokens < 1)
OutOfTokens(tk) == tk < 1

\* faulty variant: this.waitQueue.pop()
PopEntry(q) == [entry |-> q[Len(q)], rest |-> SubSeq(q, 1, Len(q) - 1)]

\* faulty variant: this.waitQueue[0], the entry staying in the queue
PeekEntry(q) == [entry |-> Head(q), rest |-> q]

\* this.waitQueue.shift()
ShiftEntry(q) == [entry |-> Head(q), rest |-> Tail(q)]

\* faulty variant: the length tested as before the push
NeverFirst(q) == Len(q) = 0

\* faulty variant: if (this.waitQueue.length >= 1)
AnyRequest(q) == Len(q) >= 1

\* if (this.waitQueue.length === 1), evaluated after the push
IsFirstRequest(q) == Len(q) = 1

\* faulty variant of processQueue: lastRefill is set only when the refill
\* is not 0, so that the fraction of a token accrued so far is kept
RECURSIVE processQueueKeepFraction(_, _)
processQueueKeepFraction(s, t) ==
  IF Len(s.waitQueue) = 0
  THEN s
  ELSE LET timePassed == t - s.lastRefill
           amount     == RefillAmount(timePassed, s.maxTokens)
           refilled   == [s EXCEPT !.tokens = Min(s.maxTokens, s.tokens + amount),
                                   !.lastRefill = IF amount > 0 THEN t ELSE @]
       IN  IF OutOfTokens(refilled.tokens)
           THEN [refilled EXCEPT !.timers = Append(@, t + WaitTime(s.maxTokens))]
           ELSE LET sh == ShiftEntry(refilled.waitQueue)
                IN  processQueueKeepFraction(
                      [refilled EXCEPT !.waitQueue = sh.rest,
                                       !.tokens = @ - 1,
                                       !.decrements = @ + 1,
                                       !.resolved = Append(@, sh.entry)], t)

(***************************************************************************)
(* processQueue() from the test of its while loop to its next await or to  *)
(* its end, at clock reading t.  s holds the fields of the limiter, the    *)
(* calls resolved in this run and the timer the run ends on, if any.       *)
(***************************************************************************)
RECURSIVE processQueue(_, _)
processQueue(s, t) ==
  IF Len(s.waitQueue) = 0
  THEN s
  ELSE LET timePassed == t - s.lastRefill
           refilled   == [s EXCEPT !.tokens = Refill(s.tokens, timePassed, s.maxTokens),
                                   !.lastRefill = t]
       IN  IF OutOfTokens(refilled.tokens)
           THEN [refilled EXCEPT !.timers = Append(@, t + WaitTime(s.maxTokens))]
           ELSE LET sh == ShiftEntry(refilled.waitQueue)
                IN  processQueue([refilled EXCEPT !.waitQueue = sh.rest,
                                                  !.tokens = @ - 1,
                                                  !.decrements = @ + 1,
                                                  !.resolved = Append(@, sh.entry)], t)

\* the limiter as processQueue finds it
Limiter(q, timers) ==
  [maxTokens |-> maxTokens, tokens |-> tokens, lastRefill |-> lastRefill,
   waitQueue |-> q, timers |-> timers, decrements |-> decrements,
   resolved |-> <<>>]

RECURSIVE Stamp(_, _)
Stamp(calls, t) ==
  IF calls = <<>> THEN <<>>
  ELSE <<[call |-> Head(calls), at |-> t]>> \o Stamp(Tail(calls), t)

\* the limiter as a run of processQueue leaves it
Commit(s) ==
  /\ tokens' = s.tokens
  /\ lastRefill' = s.lastRefill
  /\ waitQueue' = s.waitQueue
  /\ loopTimers' = s.timers
  /\ decrements' = s.decrements
  /\ grantLog' = grantLog \o Stamp(s.resolved, now)

(***************************************************************************)
(* waitForToken() called by owner: push the request, and run processQueue  *)
(* when it is the only one in the queue.                                   *)
(***************************************************************************)
waitForToken(owner) ==
  LET c == Len(callAt) + 1
      q == Append(waitQueue, c)
  IN  /\ callAt' = Append(callAt, now)
      /\ callOwner' = Append(callOwner, owner)
      /\ IF IsFirstRequest(q)
         THEN Commit(processQueue(Limiter(q, loopTimers), now))
         ELSE /\ waitQueue' = q
              /\ UNCHANGED <<tokens, lastRefill, loopTimers, decrements, grantLog>>
      /\ UNCHANGED <<now, maxTokens>>

\* a promise of waitForToken is resolved and its await has not continued yet:
\* the continuation is a microtask, which runs before any timer or event
MicrotaskPending ==
  \E p \in DOMAIN pc :
    /\ pc[p] \in {"awaitToken", "awaitChatToken"}
    /\ \E i \in 1..Len(grantLog) : grantLog[i].call = myCall[p]

\* a caller outside the invokers asks for a token, limit calls in all
ArriveUpTo(limit) ==
  /\ ~MicrotaskPending
  /\ Len(callAt) < limit
  /\ waitForToken(0)
  /\ UNCHANGED procVars

Arrive == ArriveUpTo(MaxCalls)

LiveArrive == ArriveUpTo(LiveCalls)

RemoveAt(seq, i) == SubSeq(seq, 1, i - 1) \o SubSeq(seq, i + 1, Len(seq))

\* the timer of delay(waitTime) fires: processQueue continues its loop
Wake ==
  \E i \in 1..Len(loopTimers) :
    /\ ~MicrotaskPending
    /\ loopTimers[i] <= now
    /\ Commit(processQueue(Limiter(waitQueue, RemoveAt(loopTimers, i)), now))
    /\ UNCHANGED <<now, maxTokens, callAt, callOwner>>
    /\ UNCHANGED procVars

PendingDeadlines ==
  {loopTimers[i] : i \in 1..Len(loopTimers)}
    \cup ({procTimer[p] : p \in DOMAIN procTimer} \ {0})
    \cup ({batch.timer} \ {0})

\* time passes
Tick ==
  /\ ~MicrotaskPending
  /\ \/ now + Quantum <= MaxTime
     \/ \E d \in PendingDeadlines : d > now
  /\ now' = now + Quantum
  /\ UNCHANGED <<maxTokens, tokens, lastRefill, waitQueue, loopTimers,
                 callAt, callOwner, grantLog, decrements>>
  /\ UNCHANGED procVars

\* a function has not ended, has returned, or has thrown
Pending == [how |-> "pending", status |-> 0]

\* return of the provider's payload
Returned == [how |-> "returned", status |-> 200]

\* throw error, the error being the provider's
Threw(status) == [how |-> "threw", status |-> status]

\* throw new Error(...): an error without a status
ThrewNew(message) == [how |-> message, status |-> 0]

\* no batch driver runs
NoBatch ==
  [driver |-> "none", n |-> 0, i |-> 0, at |-> "idle", items |-> <<>>,
   embed |-> <<>>, insert |-> <<>>, order |-> <<>>, opened |-> <<>>,
   closed |-> <<>>, ended |-> <<>>, delays |-> <<>>, data |-> <<>>,
   bulk |-> "none", timer |-> 0, outcome |-> Pending]

\* the non-queued limiter is not in use
NoCallers == <<>>

NoProcs ==
  /\ pc = <<>> /\ kind = <<>> /\ attempt = <<>> /\ myCall = <<>>
  /\ procTimer = <<>> /\ outcome = <<>> /\ lastStatus = <<>>
  /\ nCalls = <<>> /\ nThrottled = <<>> /\ nCooldowns = <<>>
  /\ batch = NoBatch

\* constructor(tokensPerMinute)
Constructed(tokensPerMinute) ==
  /\ now = 0
  /\ maxTokens = tokensPerMinute
  /\ tokens = tokensPerMinute
  /\ lastRefill = now
  /\ waitQueue = <<>>
  /\ loopTimers = <<>>
  /\ callAt = <<>>
  /\ callOwner = <<>>
  /\ grantLog = <<>>
  /\ decrements = 0

Init ==
  /\ \E cap \in 1..MaxCapacity : Constructed(cap)
  /\ NoProcs
  /\ callers = NoCallers

Next == Arrive \/ Wake \/ Tick

Spec == Init /\ [][Next]_vars

\* the scheduler where timers fire and the clock advances
LiveNext == LiveArrive \/ Wake \/ Tick

LiveSpec == Init /\ [][LiveNext]_vars /\ WF_vars(Wake) /\ WF_vars(Tick)

(***************************************************************************)
(* The call sites.  A process runs one of the functions below once:        *)
(*   getEmbeddingWithRetry  the retrying invoker (createEmbeddingWithRetry *)
(*                          is the same loop over a chunk),                *)
(*   generateChatResponse   one token, one chat completion                 *)
(*                          (generateMovieResponse is the same),           *)
(*   searchMovies           one token, one embedding, the stored match,    *)
(*                          then generateMovieResponse.                    *)
(* pc: "idle", "awaitToken", "awaitProvider", "cooldown", "awaitRpc",      *)
(* "awaitChatToken", "awaitChat", "done".                                  *)
(***************************************************************************)
Procs == 1..NProcs

Functions == {"getEmbeddingWithRetry", "generateChatResponse", "searchMovies"}

\* the provider answers with a result (200) or with an error of some status
Statuses == {200, TooManyRequests, 500}

\* faulty variant: i < retries - 1
MoreAttemptsOneLess(i, retries) == i < retries - 1

\* faulty variant: i <= retries
MoreAttemptsOneMore(i, retries) == i <= retries

\* i < retries
MoreAttempts(i, retries) == i < retries

\* faulty variant: every error is retried
RetryableAny(status) == status # 200

\* if (error.status === 429)
Retryable(status) == status = TooManyRequests

\* faulty variant: waitForToken() called without await
TokenRequested(p) == myCall[p] # 0

\* await rateLimiter.waitForToken(): the promise of the call is resolved
TokenHeld(p) == \E i \in 1..Len(grantLog) : grantLog[i].call = myCall[p]

\* process p asks for a token and awaits it at label
AwaitToken(p, label) ==
  /\ waitForToken(p)
  /\ pc' = [pc EXCEPT ![p] = label]
  /\ myCall' = [myCall EXCEPT ![p] = Len(callAt) + 1]

\* faulty variant: only the first attempt asks for a token, a retry calls
\* the provider on the token of the first
RetryLoopTokenOnce(p, i) ==
  /\ attempt' = [attempt EXCEPT ![p] = i]
  /\ IF MoreAttempts(i, DefaultRetries)
     THEN /\ IF i = 0
             THEN AwaitToken(p, "awaitToken")
             ELSE /\ pc' = [pc EXCEPT ![p] = "awaitToken"]
                  /\ UNCHANGED <<schedVars, myCall>>
          /\ UNCHANGED outcome
     ELSE /\ pc' = [pc EXCEPT ![p] = "done"]
          /\ outcome' = [outcome EXCEPT ![p] = ThrewNew("Max retries reached")]
          /\ UNCHANGED <<schedVars, myCall>>

\* the for loop of the retrying invoker at its test, with loop variable i
RetryLoop(p, i) ==
  /\ attempt' = [attempt EXCEPT ![p] = i]
  /\ IF MoreAttempts(i, DefaultRetries)
     THEN /\ AwaitToken(p, "awaitToken")
          /\ UNCHANGED outcome
     ELSE /\ pc' = [pc EXCEPT ![p] = "done"]
          /\ outcome' = [outcome EXCEPT ![p] = ThrewNew("Max retries reached")]
          /\ UNCHANGED <<schedVars, myCall>>

\* the function of process p is called
Invoke(p) ==
  /\ pc[p] = "idle"
  /\ ~MicrotaskPending
  /\ IF kind[p] = "getEmbeddingWithRetry"
     THEN RetryLoop(p, 0)
     ELSE /\ AwaitToken(p, "awaitToken")
          /\ UNCHANGED <<attempt, outcome>>
  /\ UNCHANGED <<kind, callers, procTimer, lastStatus, nCalls, nThrottled, nCooldowns,
                 batch>>

\* the token is there: openai.embeddings.create / chat.completions.create
CallProvider(p) ==
  /\ pc[p] \in {"awaitToken", "awaitChatToken"}
  /\ TokenHeld(p)
  /\ pc' = [pc EXCEPT ![p] = IF pc[p] = "awaitToken"
                               THEN IF kind[p] = "generateChatResponse"
                                    THEN "awaitChat" ELSE "awaitProvider"
                               ELSE "awaitChat"]
  /\ nCalls' = [nCalls EXCEPT ![p] = @ + 1]
  /\ UNCHANGED <<schedVars, kind, callers, attempt, myCall, procTimer, outcome,
                 lastStatus, nThrottled, nCooldowns, batch>>

\* faulty variant: the last attempt, when throttled, fails at once with the
\* error of the exhausted retries, without the cooldown
EmbeddingAnsweredNoLastCooldown(p, status) ==
  /\ pc[p] = "awaitProvider"
  /\ ~MicrotaskPending
  /\ kind[p] = "getEmbeddingWithRetry"
  /\ lastStatus' = [lastStatus EXCEPT ![p] = status]
  /\ IF status = 200
     THEN /\ pc' = [pc EXCEPT ![p] = "done"]
          /\ outcome' = [outcome EXCEPT ![p] = Returned]
          /\ UNCHANGED <<procTimer, nThrottled>>
     ELSE IF Retryable(status) /\ MoreAttempts(attempt[p] + 1, DefaultRetries)
     THEN /\ pc' = [pc EXCEPT ![p] = "cooldown"]
          /\ procTimer' = [procTimer EXCEPT ![p] = now + CooldownMs]
          /\ nThrottled' = [nThrottled EXCEPT ![p] =
                              @ + (IF status = TooManyRequests THEN 1 ELSE 0)]
          /\ UNCHANGED outcome
     ELSE IF Retryable(status)
     THEN /\ pc' = [pc EXCEPT ![p] = "done"]
          /\ outcome' = [outcome EXCEPT ![p] = ThrewNew("Max retries reached")]
          /\ nThrottled' = [nThrottled EXCEPT ![p] =
                              @ + (IF status = TooManyRequests THEN 1 ELSE 0)]
          /\ UNCHANGED procTimer
     ELSE /\ pc' = [pc EXCEPT ![p] = "done"]
          /\ outcome' = [outcome EXCEPT ![p] = Threw(status)]
          /\ UNCHANGED <<procTimer, nThrottled>>
  /\ UNCHANGED <<schedVars, kind, callers, attempt, myCall, nCalls, nCooldowns, batch>>

\* the embedding call of the retrying invoker is answered
EmbeddingAnswered(p, status) ==
  /\ pc[p] = "awaitProvider"
  /\ ~MicrotaskPending
  /\ kind[p] = "getEmbeddingWithRetry"
  /\ lastStatus' = [lastStatus EXCEPT ![p] = status]
  /\ IF status = 200
     THEN /\ pc' = [pc EXCEPT ![p] = "done"]
          /\ outcome' = [outcome EXCEPT ![p] = Returned]
          /\ UNCHANGED <<procTimer, nThrottled>>
     ELSE IF Retryable(status)
     THEN /\ pc' = [pc EXCEPT ![p] = "cooldown"]
          /\ procTimer' = [procTimer EXCEPT ![p] = now + CooldownMs]
          /\ nThrottled' = [nThrottled EXCEPT ![p] =
                              @ + (IF status = TooManyRequests THEN 1 ELSE 0)]
          /\ UNCHANGED outcome
     ELSE /\ pc' = [pc EXCEPT ![p] = "done"]
          /\ outcome' = [outcome EXCEPT ![p] = Threw(status)]
          /\ UNCHANGED <<procTimer, nThrottled>>
  /\ UNCHANGED <<schedVars, kind, callers, attempt, myCall, nCalls, nCooldowns, batch>>

\* delay(25000) has elapsed: continue, the next iteration of the for loop
CooldownElapsed(p) ==
  /\ pc[p] = "cooldown"
  /\ ~MicrotaskPending
  /\ procTimer[p] <= now
  /\ procTimer' = [procTimer EXCEPT ![p] = 0]
  /\ nCooldowns' = [nCooldowns EXCEPT ![p] = @ + 1]
  /\ RetryLoop(p, attempt[p] + 1)
  /\ UNCHANGED <<kind, callers, lastStatus, nCalls, nThrottled, batch>>

\* the embedding call of searchMovies is answered
SearchEmbeddingAnswered(p, status) ==
  /\ pc[p] = "awaitProvider"
  /\ ~MicrotaskPending
  /\ kind[p] = "searchMovies"
  /\ lastStatus' = [lastStatus EXCEPT ![p] = status]
  /\ IF status = 200
     THEN /\ pc' = [pc EXCEPT ![p] = "awaitRpc"]
          /\ UNCHANGED outcome
     ELSE /\ pc' = [pc EXCEPT ![p] = "done"]
          /\ outcome' = [outcome EXCEPT ![p] = Threw(status)]
  /\ UNCHANGED <<schedVars, kind, callers, attempt, myCall, procTimer, nCalls,
                 nThrottled, nCooldowns, batch>>

\* supabase.rpc('match_movies') is answered
RpcAnswered(p, answer) ==
  /\ pc[p] = "awaitRpc"
  /\ ~MicrotaskPending
  /\ CASE answer = "error" ->
            /\ pc' = [pc EXCEPT ![p] = "done"]
            /\ outcome' = [outcome EXCEPT ![p] = ThrewNew("Failed to search movies")]
            /\ UNCHANGED <<schedVars, myCall>>
       [] answer = "empty" ->
            /\ pc' = [pc EXCEPT ![p] = "done"]
            /\ outcome' = [outcome EXCEPT ![p] = Returned]
            /\ UNCHANGED <<schedVars, myCall>>
       [] answer = "rows" ->
            /\ AwaitToken(p, "awaitChatToken")
            /\ UNCHANGED outcome
  /\ UNCHANGED <<kind, callers, attempt, procTimer, lastStatus, nCalls, nThrottled,
                 nCooldowns, batch>>

\* faulty variant: a throttled chat completion waits the cooldown and is
\* tried again
ChatAnsweredRetried(p, status) ==
  /\ pc[p] = "awaitChat"
  /\ ~MicrotaskPending
  /\ lastStatus' = [lastStatus EXCEPT ![p] = status]
  /\ IF status = TooManyRequests
     THEN /\ pc' = [pc EXCEPT ![p] = "cooldown"]
          /\ procTimer' = [procTimer EXCEPT ![p] = now + CooldownMs]
          /\ UNCHANGED outcome
     ELSE /\ pc' = [pc EXCEPT ![p] = "done"]
          /\ outcome' = [outcome EXCEPT ![p] = IF status = 200 THEN Returned
                                                ELSE Threw(status)]
          /\ UNCHANGED procTimer
  /\ UNCHANGED <<schedVars, kind, callers, attempt, myCall, nCalls, nThrottled,
                 nCooldowns, batch>>

\* the chat completion is answered: the result, or throw error
ChatAnswered(p, status) ==
  /\ pc[p] = "awaitChat"
  /\ ~MicrotaskPending
  /\ lastStatus' = [lastStatus EXCEPT ![p] = status]
  /\ pc' = [pc EXCEPT ![p] = "done"]
  /\ outcome' = [outcome EXCEPT ![p] = IF status = 200 THEN Returned
                                        ELSE Threw(status)]
  /\ UNCHANGED <<schedVars, kind, callers, attempt, myCall, procTimer, nCalls,
                 nThrottled, nCooldowns, batch>>

SetMin(S) == CHOOSE x \in S : \A y \in S : x <= y

\* time passes up to the next timer; the timers fire when they are due, and
\* the calls and answers of the call sites fall on these instants
Elapse ==
  /\ ~MicrotaskPending
  /\ PendingDeadlines # {}
  /\ \A d \in PendingDeadlines : d > now
  /\ now' = SetMin(PendingDeadlines)
  /\ UNCHANGED <<maxTokens, tokens, lastRefill, waitQueue, loopTimers,
                 callAt, callOwner, grantLog, decrements>>
  /\ UNCHANGED procVars

\* what the processes run: any function for the first two, a chat completion
\* for the others
Workloads ==
  {k \in [Procs -> Functions] :
     \A p \in Procs : p > 2 => k[p] = "generateChatResponse"}

\* no function has been called yet
InvokersIdle ==
  /\ pc = [p \in Procs |-> "idle"]
  /\ attempt = [p \in Procs |-> 0]
  /\ myCall = [p \in Procs |-> 0]
  /\ procTimer = [p \in Procs |-> 0]
  /\ outcome = [p \in Procs |-> Pending]
  /\ lastStatus = [p \in Procs |-> 0]
  /\ nCalls = [p \in Procs |-> 0]
  /\ nThrottled = [p \in Procs |-> 0]
  /\ nCooldowns = [p \in Procs |-> 0]
  /\ callers = NoCallers

ProcsInit ==
  /\ InvokersIdle
  /\ kind \in Workloads
  /\ batch = NoBatch

\* export const rateLimiter = new RateLimiter(3), shared by the call sites
InvokerInit ==
  /\ Constructed(TokensPerMinute)
  /\ ProcsInit

InvokerNext ==
  \/ \E p \in Procs : Invoke(p)
  \/ \E p \in Procs : CallProvider(p)
  \/ \E p \in Procs, status \in Statuses : EmbeddingAnswered(p, status)
  \/ \E p \in Procs : CooldownElapsed(p)
  \/ \E p \in Procs, status \in Statuses : SearchEmbeddingAnswered(p, status)
  \/ \E p \in Procs, answer \in {"error", "empty", "rows"} : RpcAnswered(p, answer)
  \/ \E p \in Procs, status \in Statuses : ChatAnswered(p, status)
  \/ Wake
  \/ Elapse

InvokerSpec == InvokerInit /\ [][InvokerNext]_vars

(***************************************************************************)
(* The call sites under contention: a burst of bare callers empties the    *)
(* bucket while the retrying invoker and a search run.                     *)
(***************************************************************************)
BurstArrive == ArriveUpTo(BurstCalls)

ContendWorkload ==
  [p \in Procs |-> IF p = 1 THEN "getEmbeddingWithRetry"
                   ELSE IF p = 2 THEN "searchMovies"
                   ELSE "generateChatResponse"]

ContendInit ==
  /\ InvokerInit
  /\ kind = ContendWorkload

ContendNext == InvokerNext \/ BurstArrive

ContendSpec == ContendInit /\ [][ContendNext]_vars

(***************************************************************************)
(* The batch drivers.  Process Driver runs storeEmbeddings(documents) or   *)
(* processAndStoreMovies() once; the driver calls the retrying invoker     *)
(* for each item, one after the other.                                     *)
(*   batch.n         documents.length, chunks.length                       *)
(*   batch.i         the item of the running iteration, from 1             *)
(*   batch.at        "idle", "check", "embedding", "insert", "delay",      *)
(*                   "bulkInsert", "done"                                  *)
(*   batch.items[k]  "waiting", "embedding", "storing" and the terminal    *)
(*                   "stored", "pushed", "embedFailed", "storeFailed"      *)
(*   batch.embed[k]  how the invoker ended for item k                      *)
(*   batch.insert[k] how the store answered for item k                     *)
(*   batch.order     the items in the order their iterations began         *)
(*   batch.opened[k] the first waitForToken call of item k                 *)
(*   batch.closed[k] the number of calls made when item k ended            *)
(*   batch.ended[k]  the time at which item k ended                        *)
(*   batch.delays    the items after which delay(1000) has elapsed         *)
(*   batch.data      the array data of processAndStoreMovies               *)
(*   batch.bulk      how the store answered the insert of data             *)
(*   batch.timer     deadline of the delay(1000) awaited (0: none)         *)
(*   batch.outcome   what the driver returned or threw                     *)
(***************************************************************************)
Driver == 1

Drivers == {"storeEmbeddings", "processAndStoreMovies"}

ItemDelayMs == 1000

Terminal == {"stored", "pushed", "embedFailed", "storeFailed"}

InProgress == {"embedding", "storing"}

\* the driver is called with n items
NewBatch(driver, n) ==
  [NoBatch EXCEPT !.driver = driver,
                  !.n = n,
                  !.items = [k \in 1..n |-> "waiting"],
                  !.embed = [k \in 1..n |-> Pending],
                  !.insert = [k \in 1..n |-> "none"],
                  !.opened = [k \in 1..n |-> 0],
                  !.closed = [k \in 1..n |-> 0],
                  !.ended = [k \in 1..n |-> 0]]

\* item k has ended in state
Close(b, k, state) ==
  [b EXCEPT !.items[k] = state, !.closed[k] = Len(callAt), !.ended[k] = now]

\* the for loop of a driver at its test, the batch being b and the next item
\* k: the invoker is called for item k, or the loop is left
ForLoop(b, k) ==
  IF k <= b.n
  THEN /\ batch' = [b EXCEPT !.i = k,
                             !.at = "embedding",
                             !.items[k] = "embedding",
                             !.order = Append(@, k),
                             !.opened[k] = Len(callAt) + 1]
       /\ RetryLoop(Driver, 0)
  ELSE /\ batch' = IF b.driver = "storeEmbeddings"
                   THEN [b EXCEPT !.i = k, !.at = "done", !.outcome = Returned]
                   ELSE [b EXCEPT !.i = k, !.at = "bulkInsert"]
       /\ UNCHANGED <<schedVars, pc, attempt, myCall, outcome>>

\* the driver is called
BatchStart ==
  /\ batch.at = "idle"
  /\ batch.driver \in Drivers
  /\ IF batch.driver = "storeEmbeddings"
     THEN ForLoop(batch, 1)
     ELSE /\ batch' = [batch EXCEPT !.at = "check"]
          /\ UNCHANGED <<schedVars, pc, attempt, myCall, outcome>>
  /\ UNCHANGED <<kind, callers, procTimer, lastStatus, nCalls, nThrottled, nCooldowns>>

\* processAndStoreMovies: the select of the existing movies is answered
MoviesChecked(existing) ==
  /\ batch.at = "check"
  /\ IF existing
     THEN /\ batch' = [batch EXCEPT !.at = "done", !.outcome = Returned]
          /\ UNCHANGED <<schedVars, pc, attempt, myCall, outcome>>
     ELSE ForLoop(batch, 1)
  /\ UNCHANGED <<kind, callers, procTimer, lastStatus, nCalls, nThrottled, nCooldowns>>

\* faulty variant: the insert of storeEmbeddings is not awaited
ItemEmbeddedNoAwait ==
  /\ batch.at = "embedding"
  /\ pc[Driver] = "done"
  /\ LET b == [batch EXCEPT !.embed[batch.i] = outcome[Driver]]
     IN  IF outcome[Driver] = Returned
         THEN IF b.driver = "storeEmbeddings"
              THEN ForLoop([b EXCEPT !.items[b.i] = "storing"], b.i + 1)
              ELSE ForLoop([Close(b, b.i, "pushed") EXCEPT
                              !.data = Append(@, b.i)], b.i + 1)
         ELSE ForLoop(Close(b, b.i, "embedFailed"), b.i + 1)
  /\ UNCHANGED <<kind, callers, procTimer, lastStatus, nCalls, nThrottled, nCooldowns>>

\* the invoker has ended for the item: on its result the insert
\* (storeEmbeddings) or data.push (processAndStoreMovies), on its error the
\* catch of the iteration
ItemEmbedded ==
  /\ batch.at = "embedding"
  /\ pc[Driver] = "done"
  /\ LET b == [batch EXCEPT !.embed[batch.i] = outcome[Driver]]
     IN  IF outcome[Driver] = Returned
         THEN IF b.driver = "storeEmbeddings"
              THEN /\ batch' = [b EXCEPT !.at = "insert",
                                         !.items[b.i] = "storing"]
                   /\ UNCHANGED <<schedVars, pc, attempt, myCall, outcome>>
              ELSE ForLoop([Close(b, b.i, "pushed") EXCEPT
                              !.data = Append(@, b.i)], b.i + 1)
         ELSE ForLoop(Close(b, b.i, "embedFailed"), b.i + 1)
  /\ UNCHANGED <<kind, callers, procTimer, lastStatus, nCalls, nThrottled, nCooldowns>>

InsertAnswers == {"ok", "error", "throws"}

\* faulty variant: after an error of the insert the item is tried again
InsertAnsweredRetries(answer) ==
  /\ batch.at = "insert"
  /\ LET b == [batch EXCEPT !.insert[batch.i] = answer]
     IN  IF answer = "ok"
         THEN /\ batch' = [Close(b, b.i, "stored") EXCEPT
                             !.at = "delay", !.timer = now + ItemDelayMs]
              /\ UNCHANGED <<schedVars, pc, attempt, myCall, outcome>>
         ELSE ForLoop(Close(b, b.i, "storeFailed"), b.i)
  /\ UNCHANGED <<kind, callers, procTimer, lastStatus, nCalls, nThrottled, nCooldowns>>

\* faulty variant: delay(1000) is awaited after an error of the insert too
InsertAnsweredDelaysAlways(answer) ==
  /\ batch.at = "insert"
  /\ LET b == [batch EXCEPT !.insert[batch.i] = answer]
     IN  /\ batch' = [Close(b, b.i, IF answer = "ok" THEN "stored"
                                    ELSE "storeFailed") EXCEPT
                        !.at = "delay", !.timer = now + ItemDelayMs]
         /\ UNCHANGED <<schedVars, pc, attempt, myCall, outcome>>
  /\ UNCHANGED <<kind, callers, procTimer, lastStatus, nCalls, nThrottled, nCooldowns>>

\* faulty variant: an error of the insert is thrown out of the loop
InsertAnsweredAborts(answer) ==
  /\ batch.at = "insert"
  /\ LET b == [batch EXCEPT !.insert[batch.i] = answer]
     IN  IF answer = "ok"
         THEN /\ batch' = [Close(b, b.i, "stored") EXCEPT
                             !.at = "delay", !.timer = now + ItemDelayMs]
              /\ UNCHANGED <<schedVars, pc, attempt, myCall, outcome>>
         ELSE /\ batch' = [Close(b, b.i, "storeFailed") EXCEPT
                             !.at = "done", !.outcome = Threw(0)]
              /\ UNCHANGED <<schedVars, pc, attempt, myCall, outcome>>
  /\ UNCHANGED <<kind, callers, procTimer, lastStatus, nCalls, nThrottled, nCooldowns>>

\* storeEmbeddings: the insert of the item is answered with the row ("ok"),
\* with an error in the answer ("error": log, continue), or it throws
\* ("throws": the catch of the iteration)
InsertAnswered(answer) ==
  /\ batch.at = "insert"
  /\ LET b == [batch EXCEPT !.insert[batch.i] = answer]
     IN  IF answer = "ok"
         THEN /\ batch' = [Close(b, b.i, "stored") EXCEPT
                             !.at = "delay", !.timer = now + ItemDelayMs]
              /\ UNCHANGED <<schedVars, pc, attempt, myCall, outcome>>
         ELSE ForLoop(Close(b, b.i, "storeFailed"), b.i + 1)
  /\ UNCHANGED <<kind, callers, procTimer, lastStatus, nCalls, nThrottled, nCooldowns>>

\* storeEmbeddings: delay(1000) has elapsed, the next iteration
DelayElapsed ==
  /\ batch.at = "delay"
  /\ batch.timer <= now
  /\ ForLoop([batch EXCEPT !.timer = 0, !.delays = Append(@, batch.i)],
             batch.i + 1)
  /\ UNCHANGED <<kind, callers, procTimer, lastStatus, nCalls, nThrottled, nCooldowns>>

\* faulty variant: an error of the bulk insert is logged and not thrown
BulkInsertAnsweredSwallows(answer) ==
  /\ batch.at = "bulkInsert"
  /\ batch' = [batch EXCEPT !.at = "done",
                            !.bulk = answer,
                            !.outcome = Returned]
  /\ UNCHANGED <<schedVars, pc, attempt, myCall, outcome>>
  /\ UNCHANGED <<kind, callers, procTimer, lastStatus, nCalls, nThrottled, nCooldowns>>

\* processAndStoreMovies: the insert of data is answered; if (error) throw
\* error, which the catch of the function logs and throws again (the error
\* of the store carries no provider status)
BulkInsertAnswered(answer) ==
  /\ batch.at = "bulkInsert"
  /\ batch' = [batch EXCEPT !.at = "done",
                            !.bulk = answer,
                            !.outcome = IF answer = "ok" THEN Returned
                                        ELSE Threw(0)]
  /\ UNCHANGED <<schedVars, pc, attempt, myCall, outcome>>
  /\ UNCHANGED <<kind, callers, procTimer, lastStatus, nCalls, nThrottled, nCooldowns>>

BatchInit ==
  /\ Constructed(TokensPerMinute)
  /\ InvokersIdle
  /\ kind = [p \in Procs |-> "getEmbeddingWithRetry"]
  /\ \E driver \in Drivers, n \in 0..MaxItems : batch = NewBatch(driver, n)

BatchNext ==
  \/ BatchStart
  \/ \E existing \in BOOLEAN : MoviesChecked(existing)
  \/ CallProvider(Driver)
  \/ \E status \in Statuses : EmbeddingAnswered(Driver, status)
  \/ CooldownElapsed(Driver)
  \/ ItemEmbedded
  \/ \E answer \in InsertAnswers : InsertAnswered(answer)
  \/ DelayElapsed
  \/ \E answer \in {"ok", "error"} : BulkInsertAnswered(answer)
  \/ Wake
  \/ Elapse

BatchSpec == BatchInit /\ [][BatchNext]_vars

(***************************************************************************)
(* The non-queued limiter: the RateLimiter whose waitForToken, when out of *)
(* tokens, awaits delay(waitTime) and calls itself again.  It has no       *)
(* queue; every caller out of tokens holds a timer of its own.             *)
(*   callers[c].at     "idle", "sleeping" (in delay(waitTime)), "granted"  *)
(*   callers[c].timer  deadline of the delay(waitTime) of c                *)
(*   callers[c].saw    this.tokens as c read it in if (this.tokens < 1)    *)
(*   callers[c].ranAt  the time of the last run of waitForToken for c      *)
(* The code reads the clock only in differences, and a caller may call     *)
(* again for ever, so the clock is kept relative to the present: now stays *)
(* 0, and the passing of d ms moves lastRefill and the deadlines d ms back *)
(* (no further than a minute and than the present: more changes nothing).  *)
(* The histories callAt, grantLog and decrements are not kept here.        *)
(***************************************************************************)
CallerIds == 1..MaxCallers

IdleCaller == [at |-> "idle", timer |-> 0, saw |-> 0, ranAt |-> 0]

Max(a, b) == IF a > b THEN a ELSE b

restOfState ==
  <<now, maxTokens, waitQueue, loopTimers, callAt, callOwner, grantLog,
    decrements, pc, kind, attempt, myCall, procTimer, outcome, lastStatus,
    nCalls, nThrottled, nCooldowns, batch>>

\* one run of the body of waitForToken for caller c: refill; out of tokens,
\* await delay(waitTime), and else this.tokens--, return true
waitForTokenRecursive(c) ==
  LET refilled == Refill(tokens, now - lastRefill, maxTokens)
  IN  /\ lastRefill' = now
      /\ IF OutOfTokens(refilled)
         THEN /\ tokens' = refilled
              /\ callers' = [callers EXCEPT ![c] =
                               [at |-> "sleeping",
                                timer |-> now + WaitTime(maxTokens),
                                saw |-> refilled,
                                ranAt |-> now]]
         ELSE /\ tokens' = refilled - 1
              /\ callers' = [callers EXCEPT ![c] =
                               [at |-> "granted", timer |-> 0, saw |-> refilled,
                                ranAt |-> now]]

\* caller c calls rateLimiter.waitForToken()
RecursiveCall(c) ==
  /\ callers[c].at = "idle"
  /\ waitForTokenRecursive(c)
  /\ UNCHANGED restOfState

\* faulty variant: after delay(waitTime) the token is taken without calling
\* waitForToken again
RecursiveWakeNoRecheck(c) ==
  /\ callers[c].at = "sleeping"
  /\ callers[c].timer <= now
  /\ tokens' = tokens - 1
  /\ callers' = [callers EXCEPT ![c] =
                   [at |-> "granted", timer |-> 0, saw |-> tokens, ranAt |-> now]]
  /\ UNCHANGED lastRefill
  /\ UNCHANGED restOfState

\* the timer of delay(waitTime) of caller c fires: return this.waitForToken()
RecursiveWake(c) ==
  /\ callers[c].at = "sleeping"
  /\ callers[c].timer <= now
  /\ waitForTokenRecursive(c)
  /\ UNCHANGED restOfState

\* the await of caller c continues with the token; c may call again
RecursiveReturn(c) ==
  /\ callers[c].at = "granted"
  /\ callers' = [callers EXCEPT ![c] = IdleCaller]
  /\ UNCHANGED <<tokens, lastRefill>>
  /\ UNCHANGED restOfState

Sleeping == {c \in CallerIds : callers[c].at = "sleeping"}

\* the time to the next deadline, Quantum at most
TimeStep ==
  LET ahead == {callers[c].timer - now : c \in Sleeping} \ {0}
  IN  IF ahead = {} THEN Quantum ELSE Min(Quantum, SetMin(ahead))

\* time passes; a timer fires at its deadline or later
RecursiveElapse ==
  /\ lastRefill' = Max(lastRefill - TimeStep, now - MinuteMs)
  /\ callers' = [c \in CallerIds |->
                   IF callers[c].at = "sleeping"
                   THEN [callers[c] EXCEPT
                           !.timer = Max(@ - TimeStep, now),
                           !.ranAt = Max(@ - TimeStep, now - MinuteMs)]
                   ELSE IF callers[c].at = "granted"
                   THEN [callers[c] EXCEPT
                           !.ranAt = Max(@ - TimeStep, now - MinuteMs)]
                   ELSE callers[c]]
  /\ UNCHANGED tokens
  /\ UNCHANGED restOfState

RecursiveInit ==
  /\ \E cap \in 1..MaxCapacity : Constructed(cap)
  /\ NoProcs
  /\ callers = [c \in CallerIds |-> IdleCaller]

RecursiveNext ==
  \/ \E c \in CallerIds : RecursiveCall(c)
  \/ \E c \in CallerIds : RecursiveWake(c)
  \/ \E c \in CallerIds : RecursiveReturn(c)
  \/ RecursiveElapse

\* the timers fire and the clock advances
RecursiveSpec ==
  /\ RecursiveInit
  /\ [][RecursiveNext]_vars
  /\ \A c \in CallerIds : WF_vars(RecursiveWake(c))
  /\ WF_vars(RecursiveElapse)

(***************************************************************************)
(* Properties of the scheduler.                                            *)
(***************************************************************************)
Calls == 1..Len(callAt)

GrantsOf(c) == {i \in 1..Len(grantLog) : grantLog[i].call = c}

QueuedAt(c) == {i \in 1..Len(waitQueue) : waitQueue[i] = c}

Granted(c) == GrantsOf(c) # {}

Queued(c) == QueuedAt(c) # {}

\* C1: the token count is never negative and never above the capacity.
C1_TokensInRange == 0 <= tokens /\ tokens <= maxTokens

\* every token of the full bucket was used, and refilled ones after them
C1_Witness ==
  /\ tokens = 0
  /\ Len(grantLog) > maxTokens
  /\ lastRefill > 0

\* C2: no rolling window of 60000 ms holds more admissions than the capacity.
C2_RollingWindow ==
  \A i \in 1..Len(grantLog) :
    Cardinality({j \in 1..i : grantLog[j].at > grantLog[i].at - MinuteMs})
      <= maxTokens

\* C3: a call made before another is resolved no later than the other.
C3_Fifo ==
  \A a, b \in Calls :
    (a < b /\ Granted(b)) =>
      /\ Granted(a)
      /\ \A i \in GrantsOf(a), j \in GrantsOf(b) :
           i < j /\ grantLog[i].at <= grantLog[j].at

\* two calls waited in the queue together and were resolved one after the other
C3_Witness ==
  \E i \in 1..Len(grantLog) :
    /\ i > 1
    /\ callAt[grantLog[i].call] < grantLog[i - 1].at
    /\ grantLog[i - 1].at < grantLog[i].at
    /\ callAt[grantLog[i - 1].call] < grantLog[i - 1].at

\* C4: a queued call is eventually resolved, and a queue that is not empty
\* has a processQueue run waiting on its timer.
C4_EventuallyGranted ==
  /\ [](waitQueue # <<>> => loopTimers # <<>>)
  /\ \A c \in 1..LiveCalls : (c \in Calls /\ Queued(c)) ~> Granted(c)

\* a call that had to wait in the queue has been resolved
C4_Witness ==
  \E i \in 1..Len(grantLog) : callAt[grantLog[i].call] < grantLog[i].at

SameInstant(k) == Len(callAt) >= k /\ \A i \in 1..k : callAt[i] = callAt[1]

\* C5: the first maxTokens calls made at one instant on a fresh bucket are
\* resolved at that instant without a timer and leave tokens = 0; one more
\* call at that instant is resolved 60000 / maxTokens ms later or more.
C5_BurstThenWait ==
  /\ \A k \in 1..maxTokens :
       SameInstant(k) =>
         /\ Len(grantLog) >= k
         /\ grantLog[k] = [call |-> k, at |-> callAt[1]]
         /\ Len(callAt) = k => loopTimers = <<>>
  /\ (SameInstant(maxTokens) /\ Len(callAt) = maxTokens) => tokens = 0
  /\ (SameInstant(maxTokens + 1) /\ Len(grantLog) > maxTokens) =>
       (grantLog[maxTokens + 1].at - callAt[1]) * maxTokens >= MinuteMs

\* capacity 3: the fourth call of the burst is resolved 20000 ms or more later
C5_Witness ==
  /\ maxTokens = 3
  /\ SameInstant(4)
  /\ Len(grantLog) >= 4
  /\ grantLog[4].call = 4
  /\ grantLog[4].at - callAt[1] >= 20000

\* C6: every call is in the queue once or resolved once, never both, and the
\* resolutions are as many as the decrements of the token count.
C6_ExactlyOnce ==
  /\ Len(grantLog) = decrements
  /\ \A c \in Calls : Cardinality(GrantsOf(c)) + Cardinality(QueuedAt(c)) = 1

\* one call was resolved while another stays queued
C6_Witness ==
  /\ \E c \in Calls : Granted(c) /\ callAt[c] < grantLog[Len(grantLog)].at
  /\ waitQueue # <<>>

(***************************************************************************)
(* Properties of the call sites.                                           *)
(***************************************************************************)
CallsOf(p) == {c \in Calls : callOwner[c] = p}

GrantedCallsOf(p) == {c \in CallsOf(p) : Granted(c)}

Retrying(p) == kind[p] = "getEmbeddingWithRetry"

\* C7: a process has started no more provider calls than it was granted
\* tokens, and while a provider call is in flight its token is granted.
C7_TokenBeforeCall ==
  \A p \in Procs :
    /\ nCalls[p] <= Cardinality(GrantedCallsOf(p))
    /\ pc[p] \in {"awaitProvider", "awaitChat"} => Granted(myCall[p])

\* both calls of a search are in flight or over, each after its own token
C7_Witness ==
  \E p \in Procs :
    /\ kind[p] = "searchMovies"
    /\ pc[p] = "awaitChat"
    /\ nCalls[p] = 2
    /\ \E q \in Procs : q # p /\ Retrying(q) /\ nCalls[q] >= 1

\* C8: the retrying invoker returns as soon as the provider answers with a
\* result, having made one call more than it was throttled and observed one
\* cooldown for each throttled call; throttled fewer than retries times, it
\* has not failed.
C8_RetryThenSuccess ==
  \A p \in Procs :
    Retrying(p) =>
      /\ lastStatus[p] = 200 =>
           /\ pc[p] = "done"
           /\ outcome[p] = Returned
      /\ outcome[p].how = "returned" =>
           /\ lastStatus[p] = 200
           /\ nThrottled[p] < DefaultRetries
           /\ nCalls[p] = nThrottled[p] + 1
           /\ nCooldowns[p] = nThrottled[p]
      /\ (lastStatus[p] = TooManyRequests /\ nThrottled[p] < DefaultRetries) =>
           /\ outcome[p] = Pending
           /\ pc[p] \in {"cooldown", "awaitToken", "awaitProvider"}

\* throttled twice, the third call succeeded: two cooldowns, three calls
C8_Witness ==
  \E p \in Procs :
    /\ Retrying(p)
    /\ outcome[p] = Returned
    /\ nThrottled[p] = 2
    /\ nCooldowns[p] = 2
    /\ nCalls[p] = 3

\* C9: the retrying invoker never makes more than retries provider calls;
\* throttled retries times it makes no further call and fails with the
\* 'Max retries' error, which it throws in no other case.
C9_MaxRetries ==
  \A p \in Procs :
    Retrying(p) =>
      /\ nCalls[p] <= DefaultRetries
      /\ nThrottled[p] = DefaultRetries =>
           /\ nCalls[p] = DefaultRetries
           /\ pc[p] \in {"cooldown", "done"}
           /\ pc[p] = "done" => outcome[p] = ThrewNew("Max retries reached")
      /\ outcome[p] = ThrewNew("Max retries reached") =>
           /\ nThrottled[p] = DefaultRetries
           /\ nCalls[p] = DefaultRetries

\* every call was throttled and the invoker gave up
C9_Witness ==
  \E p \in Procs :
    /\ Retrying(p)
    /\ outcome[p] = ThrewNew("Max retries reached")
    /\ nCalls[p] = DefaultRetries

\* C10: an answer of the provider that is an error other than 429 ends the
\* retrying invoker at once with that error: no cooldown is started, no token
\* is requested and no call is made after it.
C10_FailFast ==
  \A p \in Procs :
    (Retrying(p) /\ lastStatus[p] \notin {0, 200, TooManyRequests}) =>
      /\ pc[p] = "done"
      /\ outcome[p] = Threw(lastStatus[p])
      /\ procTimer[p] = 0
      /\ nCooldowns[p] = nThrottled[p]
      /\ nCalls[p] = nThrottled[p] + 1
      /\ Cardinality(CallsOf(p)) = nCalls[p]

\* the error came on a retry, with attempts left
C10_Witness ==
  \E p \in Procs :
    /\ Retrying(p)
    /\ outcome[p] = Threw(500)
    /\ nThrottled[p] = 1
    /\ nCalls[p] = 2

(***************************************************************************)
(* Properties of the processing loop.                                      *)
(***************************************************************************)
\* a step in which processQueue runs: a timer of the loop fires, or a call
\* arrives at an empty queue
LoopRan ==
  \/ loopTimers' # loopTimers
  \/ Len(callAt') > Len(callAt) /\ waitQueue = <<>>
  \/ Len(grantLog') > Len(grantLog)

\* C16: the wake-up after delay(waitTime) finds a token: every run of the
\* loop that a timer resumes resolves the head of the queue.
C16_WakeGrants ==
  [][Len(loopTimers) > 0 /\ LoopRan =>
       /\ Len(grantLog') > Len(grantLog)
       /\ grantLog'[Len(grantLog) + 1].call = Head(waitQueue)]_vars

\* the head was resolved by the wake-up, the next call waits on a new timer
C16_Witness ==
  /\ loopTimers # <<>>
  /\ grantLog # <<>>
  /\ grantLog[Len(grantLog)].at > callAt[grantLog[Len(grantLog)].call]
  /\ grantLog[Len(grantLog)].at = lastRefill

\* C17: the admissions are never more than a bucket refilled continuously
\* from the construction would allow, capacity + floor(t * capacity / 60000).
C17_Undercount ==
  Len(grantLog) <= maxTokens + (now * maxTokens) \div MinuteMs

\* the bound is met after the first minute has begun
C17_Witness ==
  /\ now > 0
  /\ Len(grantLog) > maxTokens
  /\ Len(grantLog) = maxTokens + (now * maxTokens) \div MinuteMs

\* C18: a call that arrives at a queue that is not empty is appended at the
\* tail and changes nothing else of the limiter; tokens and lastRefill
\* change only in a run of the loop.
C18_ArrivalFrame ==
  [][
      /\ (Len(callAt') > Len(callAt) /\ waitQueue # <<>>) =>
            /\ waitQueue' = Append(waitQueue, Len(callAt'))
            /\ tokens' = tokens
            /\ lastRefill' = lastRefill
            /\ loopTimers' = loopTimers
            /\ grantLog' = grantLog
            /\ decrements' = decrements
      /\ (tokens' # tokens \/ lastRefill' # lastRefill) =>
            \/ (Len(callAt') > Len(callAt) /\ waitQueue = <<>>)
            \/ (Len(callAt') = Len(callAt) /\ Len(loopTimers') <= Len(loopTimers)
                  /\ \E i \in 1..Len(loopTimers) : loopTimers[i] <= now)
  ]_vars

\* two calls are queued: the second arrived at a queue that was not empty
C18_Witness ==
  /\ Len(waitQueue) >= 2
  /\ Len(loopTimers) = 1

\* C19: at most one run of the loop is suspended, and one is exactly when
\* the queue is not empty.
C19_OneLoop ==
  /\ Len(loopTimers) <= 1
  /\ waitQueue # <<>> <=> Len(loopTimers) = 1

\* a loop has ended on an empty queue and a later arrival started a new one
C19_Witness ==
  /\ Len(loopTimers) = 1
  /\ \E i \in 1..Len(grantLog) :
       /\ callAt[grantLog[i].call] < grantLog[i].at
       /\ \E c \in Calls : Queued(c) /\ callAt[c] > grantLog[i].at
       /\ \A c \in Calls : Queued(c) => callAt[c] > grantLog[i].at

\* C20: a run of the loop at time now leaves lastRefill = now and
\* tokens = min(capacity, tokens + floor(elapsed * capacity / 60000)) less
\* the calls it resolved, also when the refill is 0.
C20_Recompute ==
  [][LoopRan =>
       /\ lastRefill' = now
       /\ tokens' = Min(maxTokens,
                        tokens + ((now - lastRefill) * maxTokens) \div MinuteMs)
                    - (Len(grantLog') - Len(grantLog))]_vars

\* the loop ran with less than one token accrued: the refill was 0 and
\* lastRefill moved on
C20_Witness ==
  /\ loopTimers # <<>>
  /\ grantLog # <<>>
  /\ lastRefill > grantLog[Len(grantLog)].at
  /\ (lastRefill - grantLog[Len(grantLog)].at) * maxTokens < MinuteMs

(***************************************************************************)
(* Properties of the retries.                                              *)
(***************************************************************************)
GrantIndex(c) == CHOOSE i \in 1..Len(grantLog) : grantLog[i].call = c

QueueIndex(c) == CHOOSE i \in 1..Len(waitQueue) : waitQueue[i] = c

\* C11: every attempt of the retrying invoker asks for its own token, so the
\* invoker has asked for as many tokens as it started attempts and made as
\* many provider calls as it was granted tokens; the call of an attempt
\* stands behind every call made before it, in the queue and in the grants.
C11_TokenPerAttempt ==
  \A p \in Procs :
    Retrying(p) =>
      /\ pc[p] = "awaitToken" =>
           /\ Cardinality(CallsOf(p)) = attempt[p] + 1
           /\ nCalls[p] = attempt[p]
           /\ \A c \in CallsOf(p) : c <= myCall[p]
      /\ pc[p] \in {"awaitProvider", "cooldown", "done"} =>
           /\ Cardinality(CallsOf(p)) = nCalls[p]
           /\ Cardinality(GrantedCallsOf(p)) = nCalls[p]
      /\ (myCall[p] # 0 /\ Granted(myCall[p])) =>
           LET mine == GrantIndex(myCall[p])
           IN  \A a \in 1..(myCall[p] - 1) :
                 Granted(a) /\ GrantIndex(a) < mine
      /\ (myCall[p] # 0 /\ Queued(myCall[p])) =>
           LET mine == QueueIndex(myCall[p])
           IN  \A a \in 1..(myCall[p] - 1) :
                 Granted(a) \/ QueueIndex(a) < mine

\* a retry found in the queue a call that arrived during its cooldown, and
\* was granted its token after that call
C11_Witness ==
  \E p \in Procs :
    /\ Retrying(p)
    /\ attempt[p] >= 1
    /\ Granted(myCall[p])
    /\ \E a \in Calls, c0 \in CallsOf(p) :
         /\ c0 < a /\ a < myCall[p]
         /\ callOwner[a] # p
         /\ Granted(a)
         /\ grantLog[GrantIndex(a)].at > callAt[myCall[p]]
         /\ GrantIndex(a) < GrantIndex(myCall[p])

\* C12 as stated: a chat completion answered with 429 is not surfaced to
\* its caller.
C12_ChatRetried ==
  \A p \in Procs :
    (kind[p] = "generateChatResponse" /\ lastStatus[p] = TooManyRequests) =>
      outcome[p] # Threw(TooManyRequests)

\* C12 amended: a chat completion, and the embedding of a search, answered
\* with 429 ends its function at once with that error: no cooldown, no
\* second token, no second attempt.
C12_ChatNotRetried ==
  \A p \in Procs :
    (~Retrying(p) /\ lastStatus[p] = TooManyRequests) =>
      /\ pc[p] = "done"
      /\ outcome[p] = Threw(TooManyRequests)
      /\ procTimer[p] = 0
      /\ nCooldowns[p] = 0
      /\ Cardinality(CallsOf(p)) = nCalls[p]

\* a chat completion was throttled on its only call
C12_Witness ==
  \E p \in Procs :
    /\ kind[p] = "generateChatResponse"
    /\ lastStatus[p] = TooManyRequests
    /\ nCalls[p] = 1
    /\ outcome[p] = Threw(TooManyRequests)

(***************************************************************************)
(* Properties of the batch drivers.                                        *)
(***************************************************************************)
Items == 1..batch.n

Stored == {k \in Items : batch.items[k] = "stored"}

UpTo(n) == [k \in 1..n |-> k]

\* C13: storeEmbeddings never throws and never stops short of its end; its
\* iterations begin in the order 1..n; when it has returned every item has
\* ended, and an item is stored exactly if its own embedding and its own
\* insert succeeded, whatever happened to the others.
C13_BatchCompletes ==
  batch.driver = "storeEmbeddings" =>
    /\ batch.outcome \in {Pending, Returned}
    /\ batch.at # "done" => ENABLED BatchNext
    /\ batch.order = UpTo(Len(batch.order))
    /\ batch.at = "done" =>
         /\ batch.outcome = Returned
         /\ batch.order = UpTo(batch.n)
         /\ \A k \in Items :
              /\ batch.items[k] \in Terminal
              /\ batch.items[k] = "stored" <=>
                   (batch.embed[k] = Returned /\ batch.insert[k] = "ok")

\* a batch has returned in which an item between others exhausted its
\* retries and all the other items are stored
C13_Witness ==
  /\ batch.driver = "storeEmbeddings"
  /\ batch.at = "done"
  /\ batch.n >= 3
  /\ \E k \in Items :
       /\ 1 < k /\ k < batch.n
       /\ batch.embed[k] = ThrewNew("Max retries reached")
       /\ batch.items[k] = "embedFailed"
       /\ Stored = Items \ {k}

\* C14 as stated: processAndStoreMovies never ends with an error.
C14_NeverAborts ==
  batch.driver = "processAndStoreMovies" => batch.outcome \in {Pending, Returned}

\* C14 amended: in processAndStoreMovies a chunk whose embedding fails is
\* skipped and the loop goes on to the insert of the chunks embedded, in
\* their order; an error of that insert ends the function with the error
\* thrown to the caller, and only an insert without error lets it return.
C14_InsertErrorThrown ==
  batch.driver = "processAndStoreMovies" =>
    /\ batch.bulk = "error" <=> batch.outcome = Threw(0)
    /\ batch.bulk = "ok" => batch.outcome = Returned
    /\ batch.bulk # "none" => batch.at = "done"
    /\ batch.at \in {"bulkInsert", "done"} /\ batch.i > 0 =>
         /\ \A k \in Items :
              /\ batch.items[k] \in {"pushed", "embedFailed"}
              /\ batch.items[k] = "pushed" <=> batch.embed[k] = Returned
         /\ Len(batch.data) = Cardinality({k \in Items : batch.items[k] = "pushed"})
         /\ \A j \in 1..Len(batch.data) :
              /\ batch.items[batch.data[j]] = "pushed"
              /\ j > 1 => batch.data[j - 1] < batch.data[j]

\* the insert of the chunks embedded, one chunk skipped, was answered with an
\* error and processAndStoreMovies threw it
C14_Witness ==
  /\ batch.driver = "processAndStoreMovies"
  /\ batch.at = "done"
  /\ batch.bulk = "error"
  /\ batch.outcome = Threw(0)
  /\ \E j, k \in Items : batch.items[j] = "pushed" /\ batch.items[k] = "embedFailed"

\* C15: in storeEmbeddings at most one item is in progress, and it is the
\* item of the running iteration; an item is begun only when the item before
\* it has ended, its first token request being made after the last call of
\* the item before; the invoker runs only for the item in progress, and
\* every token request of the driver falls between the beginning and the end
\* of one item.
C15_Sequential ==
  batch.driver = "storeEmbeddings" =>
    /\ Cardinality({k \in Items : batch.items[k] \in InProgress}) <= 1
    /\ \A k \in Items : batch.items[k] \in InProgress => k = batch.i
    /\ \A k \in Items :
         (k > 1 /\ batch.items[k] # "waiting") =>
           /\ batch.items[k - 1] \in Terminal
           /\ batch.opened[k] > batch.closed[k - 1]
           /\ batch.opened[k] > batch.opened[k - 1]
    /\ pc[Driver] \in {"awaitToken", "awaitProvider", "cooldown"} =>
         /\ batch.at = "embedding"
         /\ batch.items[batch.i] = "embedding"
    /\ \A c \in CallsOf(Driver) :
         \E k \in Items :
           /\ batch.opened[k] # 0
           /\ batch.opened[k] <= c
           /\ batch.items[k] \in Terminal => c <= batch.closed[k]

\* the embedding call of an item is under way, the item before it is stored
C15_Witness ==
  /\ batch.driver = "storeEmbeddings"
  /\ pc[Driver] = "awaitProvider"
  /\ batch.i > 1
  /\ batch.items[batch.i] = "embedding"
  /\ batch.items[batch.i - 1] = "stored"

(***************************************************************************)
(* Properties of the cooldowns.                                            *)
(***************************************************************************)
\* C25: in the retrying invoker every throttled attempt is followed by one
\* cooldown of 25000 ms: the cooldowns elapsed equal the throttled attempts,
\* less the one under way; the error of the exhausted retries is thrown only
\* after the cooldown of the last attempt, DefaultRetries cooldowns in all.
C25_CooldownPerThrottle ==
  \A p \in Procs :
    Retrying(p) =>
      /\ pc[p] = "cooldown" =>
           /\ nThrottled[p] = nCooldowns[p] + 1
           /\ procTimer[p] # 0
      /\ pc[p] # "cooldown" => nThrottled[p] = nCooldowns[p]
      /\ outcome[p] = ThrewNew("Max retries reached") =>
           /\ nThrottled[p] = DefaultRetries
           /\ nCooldowns[p] = DefaultRetries
           /\ now >= DefaultRetries * CooldownMs

\* the invoker has waited the cooldown of its last attempt and has thrown
\* the error of the exhausted retries
C25_Witness ==
  \E p \in Procs :
    /\ Retrying(p)
    /\ outcome[p] = ThrewNew("Max retries reached")
    /\ nCooldowns[p] = DefaultRetries
    /\ lastStatus[p] = TooManyRequests

(***************************************************************************)
(* Properties of the items of storeEmbeddings.                             *)
(***************************************************************************)
ItemStates ==
  {"waiting", "embedding", "storing", "stored", "embedFailed", "storeFailed"}

\* pending -> embedding in progress -> (embedded, at the store -> stored |
\* store-failed) | embedding-failed
ItemSteps ==
  {<<"waiting", "embedding">>, <<"embedding", "storing">>,
   <<"embedding", "embedFailed">>, <<"storing", "stored">>,
   <<"storing", "storeFailed">>}

Occurrences(seq, x) == Cardinality({j \in 1..Len(seq) : seq[j] = x})

ItemsWellFormed ==
  batch.driver = "storeEmbeddings" =>
    /\ \A k \in Items :
         /\ batch.items[k] \in ItemStates
         /\ Occurrences(batch.order, k) =
              (IF batch.items[k] = "waiting" THEN 0 ELSE 1)
         /\ batch.items[k] \in {"storing", "stored", "storeFailed"} =>
              batch.embed[k] = Returned
         /\ batch.items[k] = "embedFailed" =>
              /\ batch.embed[k] \notin {Pending, Returned}
              /\ batch.insert[k] = "none"
         /\ batch.items[k] = "stored" <=> batch.insert[k] = "ok"
         /\ batch.items[k] = "storeFailed" <=>
              batch.insert[k] \in {"error", "throws"}
    /\ batch.at = "done" =>
         \A k \in Items :
           batch.items[k] \in {"stored", "embedFailed", "storeFailed"}

ItemsStep ==
  (batch.driver = "storeEmbeddings" /\ batch'.driver = "storeEmbeddings") =>
    \A k \in Items :
      /\ batch'.items[k] # batch.items[k] =>
           <<batch.items[k], batch'.items[k]>> \in ItemSteps
      /\ batch'.embed[k] # batch.embed[k] => batch.embed[k] = Pending
      /\ batch'.insert[k] # batch.insert[k] => batch.insert[k] = "none"
      /\ Occurrences(batch'.order, k) > Occurrences(batch.order, k) =>
           batch.items[k] = "waiting"

\* C21: in storeEmbeddings an item only moves waiting -> embedding ->
\* (storing -> stored | storeFailed) | embedFailed; the three terminal
\* states are never left, and at the end every item is in one of them; the
\* invoker is called once for an item (the item begins one iteration) and
\* the store is asked and answers at most once for it.
C21_ItemLifecycle == []ItemsWellFormed /\ [][ItemsStep]_vars

\* the batch has ended with an item in each of the three terminal states
C21_Witness ==
  /\ batch.driver = "storeEmbeddings"
  /\ batch.at = "done"
  /\ \E j, k, l \in Items :
       /\ batch.items[j] = "stored"
       /\ batch.items[k] = "embedFailed"
       /\ batch.items[l] = "storeFailed"

(***************************************************************************)
(* Properties of the delay between the items.                              *)
(***************************************************************************)
Began(k) == batch.opened[k] # 0

\* the items before the running one that are stored, and the running one
\* once its delay has elapsed
Delayed ==
  {k \in Stored : k < batch.i \/ (k = batch.i /\ batch.at # "delay")}

IsIncreasing(seq) == \A j \in 1..Len(seq) - 1 : seq[j] < seq[j + 1]

\* C22: in storeEmbeddings delay(1000) is awaited after an item exactly if
\* the item is stored: the driver waits in the delay only after a stored
\* item, the delays elapsed are those of the stored items, once each and in
\* order; the iteration after a stored item begins 1000 ms or more after the
\* item was stored, the one after a failed item at the instant it failed.
C22_DelayAfterStored ==
  batch.driver = "storeEmbeddings" =>
    /\ batch.at = "delay" <=> batch.timer # 0
    /\ batch.at = "delay" =>
         /\ batch.items[batch.i] = "stored"
         /\ batch.timer = batch.ended[batch.i] + 1000
    /\ {batch.delays[j] : j \in 1..Len(batch.delays)} = Delayed
    /\ IsIncreasing(batch.delays)
    /\ \A k \in Items :
         (k > 1 /\ Began(k)) =>
           /\ batch.items[k - 1] = "stored" =>
                callAt[batch.opened[k]] >= batch.ended[k - 1] + 1000
           /\ batch.items[k - 1] # "stored" =>
                callAt[batch.opened[k]] = batch.ended[k - 1]
    /\ batch.at = "done" => Len(batch.delays) = Cardinality(Stored)

\* an item began after the delay of a stored item, and another at once after
\* a failed item
C22_Witness ==
  /\ batch.driver = "storeEmbeddings"
  /\ \E j, k \in Items :
       /\ j > 1 /\ k > 1
       /\ Began(j) /\ Began(k)
       /\ batch.items[j - 1] = "stored"
       /\ callAt[batch.opened[j]] = batch.ended[j - 1] + 1000
       /\ batch.items[k - 1] \in {"embedFailed", "storeFailed"}
       /\ callAt[batch.opened[k]] = batch.ended[k - 1]

(***************************************************************************)
(* Properties of the non-queued limiter.                                   *)
(***************************************************************************)
\* callers c and d ran waitForToken in the same instant, the present one
Concurrent(c, d) ==
  /\ c # d
  /\ callers[c].at # "idle" /\ callers[c].ranAt = now
  /\ callers[d].at # "idle" /\ callers[d].ranAt = now

\* C23 as stated: of two callers that run waitForToken in the same instant
\* with one token left, both read the token and both take it, and
\* this.tokens falls below zero.
C23_BothDecrement ==
  \A c, d \in CallerIds :
    (Concurrent(c, d) /\ callers[c].saw = 1 /\ callers[d].saw <= 1) =>
      /\ callers[d].saw = 1
      /\ callers[d].at = "granted"
      /\ tokens < 0

TokensNeverNegative ==
  callers # NoCallers =>
    /\ 0 <= tokens /\ tokens <= maxTokens
    /\ \A c \in CallerIds :
         /\ callers[c].at = "granted" => callers[c].saw >= 1
         /\ callers[c].at = "sleeping" => callers[c].saw = 0
    /\ \A c, d \in CallerIds :
         (Concurrent(c, d) /\ callers[c].at = "granted"
                           /\ callers[d].at = "granted") =>
           callers[c].saw # callers[d].saw

CheckThenDecrement ==
  callers # NoCallers =>
    \A c \in CallerIds :
      (callers[c].at # "granted" /\ callers'[c].at = "granted") =>
        /\ Refill(tokens, now - lastRefill, maxTokens) >= 1
        /\ callers'[c].saw = Refill(tokens, now - lastRefill, maxTokens)
        /\ tokens' = callers'[c].saw - 1
        /\ \A d \in CallerIds \ {c} : callers'[d] = callers[d]

\* C23 amended: in the non-queued limiter a caller reads this.tokens and
\* decrements it in one step, so a token is taken only when the count read
\* at that step is 1 or more, callers of the same instant are granted on
\* different counts, a caller that reads 0 sleeps, and this.tokens stays
\* within 0..maxTokens.
C23_NoOverdraw == []TokensNeverNegative /\ [][CheckThenDecrement]_vars

\* two callers ran in the same instant with one token left: one took it, the
\* other read 0 and sleeps
C23_Witness ==
  /\ callers # NoCallers
  /\ tokens = 0
  /\ \E c, d \in CallerIds :
       /\ Concurrent(c, d)
       /\ callers[c].at = "granted" /\ callers[c].saw = 1
       /\ callers[d].at = "sleeping" /\ callers[d].saw = 0

\* C24: in the non-queued limiter every caller that waits is eventually
\* granted a token, the timers firing and the clock advancing; so, at the
\* least, while callers wait a token is eventually granted to some caller.
C24_EventuallyGranted ==
  (callers # NoCallers /\ Sleeping # {})
    ~> (\E c \in CallerIds : callers[c].at = "granted")

====
